---- MODULE Spec2Model ----
(***************************************************************************)
(* Model of the wallet monitor (package monitor) of solana-wallet-tracker  *)
(* and of the two client operations it consumes (package solana).          *)
(*                                                                         *)
(* Tasks: "boot" is the goroutine that calls Monitor.Start and runs        *)
(* updateInitialState; "poll" is startPeriodicPolling; a wallet name used  *)
(* as a task id is the goroutine that delivers that wallet's subscription  *)
(* callbacks; "reader" is a caller of GetCurrentState.  Handler            *)
(* invocations are goroutines of their own, counted in running.            *)
(*                                                                         *)
(* The ledger behind the RPC and WebSocket endpoints is the environment:   *)
(* chain holds the on-ledger balance of each token account.                *)
(***************************************************************************)
EXTENDS Integers, Sequences, FiniteSets, TLC

\* ---- bounds of the model ------------------------------------------------
MaxChanges == 1
MaxTicks == 1
MaxPushes == 1
MaxReads == 1
MaxTime == 0
MaxHandlers == 2
\* pushes in the single-wallet specifications
SoloPushes == 2

\* ---- the Watch Set and the ledger ---------------------------------------
WalletSet == {"A", "B"}
Balances == {0, 100, 150}
\* The state of a token account on the ledger: open with a balance, or closed.
Open(bal) == [open |-> TRUE, bal |-> bal]
Closed == [open |-> FALSE, bal |-> 0]
HandlerIds == <<"h1", "h2", "h3">>

\* Token accounts on the ledger, in the order the RPC lists them.
AcctOrder == <<"a1", "a2", "a3">>
Accts == {AcctOrder[i] : i \in 1..Len(AcctOrder)}
AcctOwner(a) == IF a = "a3" THEN "B" ELSE "A"
AcctMint(a) == IF a = "a2" THEN "M2" ELSE "M1"
MintDecimals(m) == IF m = "M1" THEN 6 ELSE 9
\* The accounts whose on-ledger state changes while the monitor runs.
Volatile == {"a1", "a2"}

NoAccount == [Address |-> "", Owner |-> "", Mint |-> "", Balance |-> 0,
              Decimals |-> 0, ProgramID |-> "", LastUpdatedAt |-> 0]

Tasks == {"boot", "poll"} \cup WalletSet

VARIABLES
    wallets,     \* m.wallets: the watched wallets, in configured order
    tokens,      \* m.tokens: the mint allow-list
    handlers,    \* m.handlers: registered handler ids, in order
    state,       \* m.state: key -> TokenAccountInfo
    stateMutex,  \* m.stateMutex: [w |-> holder of the write lock, r |-> readers]
    ctxDone,     \* m.ctx cancelled
    startResult, \* "new", "running" (inside Start), "ok", "error"
    pc,          \* position of each task
    wi,          \* index into m.wallets of the boot/poll loop
    accts,       \* accounts of the current fetch still to be ranged over
    cur,         \* processAccountUpdate's parameter account
    chg,         \* processAccountUpdate's local balanceChanged
    hi,          \* index into m.handlers of the notify loop
    running,     \* handler id -> number of its invocations in progress
    panicked,    \* some handler invocation panicked
    crashed,     \* the process died of an unrecovered panic
    stopPanic,   \* a call of Stop panicked
    rdPc,        \* position of the GetCurrentState caller
    stateCopy,   \* GetCurrentState's stateCopy
    chain,       \* ledger: account -> Open(balance) or Closed
    now,         \* the latest reading of time.Now()
    nChanges, nTicks, nPushes, nReads,
    lim,         \* the bounds of this run: [changes, ticks, pushes, time]
    applied,     \* history: the updates committed to the store, in lock order
    invoked,     \* history: handler id -> accounts it was invoked with
    fetchLog,    \* history: bootstrap fetches, <<wallet, succeeded>>
    seen         \* history: store contents observed during the current read

vars == <<wallets, lim, tokens, handlers, state, stateMutex, ctxDone, startResult, pc, wi,
          accts, cur, chg, hi, running, panicked, crashed, stopPanic, rdPc, stateCopy,
          chain, now, nChanges, nTicks, nPushes, nReads, applied, invoked,
          fetchLog, seen>>

envVars == <<chain, now, nChanges>>
taskVars == <<pc, wi, accts, cur, chg, hi>>
readVars == <<rdPc, stateCopy, nReads, seen>>
histVars == <<applied, invoked, fetchLog>>

\* ---- pure functions -----------------------------------------------------

\* Variant: the key is the owner alone.
OwnerOnly(account) == account.Owner

\* key := account.Owner + ":" + account.Mint
Key(account) == account.Owner \o ":" \o account.Mint

\* Variant: the allow-list is ignored.
TrackEverything(toks, mint) == TRUE

shouldTrackToken(toks, mint) ==
    IF Len(toks) = 0 THEN TRUE
    ELSE \E i \in 1..Len(toks) : toks[i] = mint

\* Variant: the whole records are compared instead of the balances.
RecordChanged(st, account) ==
    \/ Key(account) \notin DOMAIN st
    \/ st[Key(account)] # account

\* Variant: a change is declared for a new key only.
NewKeyOnly(st, account) == Key(account) \notin DOMAIN st

\* Variant: every update is declared a change.
AlwaysChanged(st, account) == TRUE

\* balanceChanged := !exists || oldAccount.Balance != account.Balance
BalanceChanged(st, account) ==
    \/ Key(account) \notin DOMAIN st
    \/ st[Key(account)].Balance # account.Balance

\* Variant: a record is stored for a new key only.
InsertOnly(st, account) ==
    IF Key(account) \in DOMAIN st THEN st
    ELSE [k \in DOMAIN st \cup {Key(account)} |->
            IF k = Key(account) THEN account ELSE st[k]]

\* Variant: the stored record is replaced only when the balance differs.
KeepsUnchanged(st, account) ==
    IF Key(account) \in DOMAIN st
       /\ st[Key(account)].Balance = account.Balance
    THEN st
    ELSE [k \in DOMAIN st \cup {Key(account)} |->
            IF k = Key(account) THEN account ELSE st[k]]

\* Variant: an account that empties to balance 0 is removed from the store.
DropsEmpty(st, account) ==
    IF account.Balance = 0
    THEN [k \in DOMAIN st \ {Key(account)} |-> st[k]]
    ELSE [k \in DOMAIN st \cup {Key(account)} |->
            IF k = Key(account) THEN account ELSE st[k]]

\* m.state[key] = account
Store(st, account) ==
    [k \in DOMAIN st \cup {Key(account)} |->
        IF k = Key(account) THEN account ELSE st[k]]

\* The record GetTokenAccounts builds for one listed account.
TokenInfo(a, walletAddress, bal, t) ==
    [Address |-> a, Owner |-> walletAddress, Mint |-> AcctMint(a),
     Balance |-> bal, Decimals |-> MintDecimals(AcctMint(a)),
     ProgramID |-> "spl-token", LastUpdatedAt |-> t]

\* Client.GetTokenAccounts on success: the wallet's open accounts.
GetTokenAccounts(walletAddress, ch, t) ==
    LET listed == SelectSeq(AcctOrder,
                    LAMBDA a : AcctOwner(a) = walletAddress /\ ch[a].open)
    IN  [i \in 1..Len(listed) |->
            TokenInfo(listed[i], walletAddress, ch[listed[i]].bal, t)]

\* A program notification for account a carrying amount bal.
Notification(a, bal, amountOk) ==
    [Pubkey |-> a, Owner |-> AcctOwner(a), Mint |-> AcctMint(a),
     Amount |-> bal, AmountOk |-> amountOk,
     Decimals |-> MintDecimals(AcctMint(a))]

\* parseTokenAccountFromSubscription: NoAccount stands for the nil and the
\* error results, which the subscription callback both drops.
parseTokenAccountFromSubscription(n, walletAddress, t) ==
    IF n.Owner # walletAddress THEN NoAccount
    ELSE IF ~n.AmountOk THEN NoAccount
    ELSE [Address |-> n.Pubkey, Owner |-> walletAddress, Mint |-> n.Mint,
          Balance |-> n.Amount, Decimals |-> n.Decimals,
          ProgramID |-> "", LastUpdatedAt |-> t]

\* Variant: Lock does not wait for the holder of the lock.
NeverBlocks(mu) == TRUE

\* Variant: Lock does not wait for the readers.
IgnoresReaders(mu) == mu.w = "none"

\* sync.RWMutex
CanLock(mu) == mu.w = "none" /\ mu.r = 0
CanRLock(mu) == mu.w = "none"

\* Variant: the lock is released by a deferred Unlock, when
\* processAccountUpdate returns.
HeldUntilReturn(mu) == mu

\* m.stateMutex.Unlock()
Unlock(mu) == [mu EXCEPT !.w = "none"]

\* Variant: Stop closes a channel, and closing it again panics.
CloseDone(done) == [done |-> TRUE, panicked |-> done]

\* context.CancelFunc: cancelling twice is allowed and does nothing more.
Cancel(done) == [done |-> TRUE, panicked |-> FALSE]

\* "go handler(account)" runs the handler with no deferred recover: a panic
\* of the handler is a panic of its goroutine, which ends the process.
Unrecovered(panic) == panic

\* Variant: the handler is called in place, so the caller waits for it.
WaitsForHandlers(run) == \A h \in DOMAIN run : run[h] = 0

\* "go handler(account)" starts the goroutine and returns at once.
GoReady(run) == TRUE

\* Variant: the handler is given the record stored for the key when the
\* notification is sent.
StoredRecord(st, account) == st[Key(account)]

\* Variant: the handler is given the incoming record with the balance read
\* back from the store when the notification is sent.
BalanceReadBack(st, account) ==
    [account EXCEPT !.Balance = st[Key(account)].Balance]

\* The argument of "go handler(account)": processAccountUpdate's parameter.
HandlerArg(st, account) == account

\* Variant: a request made with a cancelled context is still answered.
IgnoresCtx(done) == TRUE

\* A request made with m.ctx can be answered only while m.ctx is not
\* cancelled; it can fail at any time.
CanSucceed(done) == ~done

EmptyState == [k \in {} |-> NoAccount]

\* ---- initial state: after NewMonitor -------------------------------------
NewMonitor ==
    /\ handlers = <<>>
    /\ state = EmptyState
    /\ stateMutex = [w |-> "none", r |-> 0]
    /\ ctxDone = FALSE
    /\ startResult = "new"
    /\ pc = [t \in Tasks |-> IF t = "boot" THEN "idle" ELSE "off"]
    /\ wi = [t \in {"boot", "poll"} |-> 1]
    /\ accts = [t \in {"boot", "poll"} |-> <<>>]
    /\ cur = [t \in Tasks |-> NoAccount]
    /\ chg = [t \in Tasks |-> FALSE]
    /\ hi = [t \in Tasks |-> 1]
    /\ running = [i \in {} |-> 0]
    /\ panicked = FALSE
    /\ crashed = FALSE
    /\ stopPanic = FALSE
    /\ rdPc = "idle"
    /\ stateCopy = EmptyState
    /\ chain = [a \in Accts |-> Open(100)]
    /\ now = 0
    /\ nChanges = 0 /\ nTicks = 0 /\ nPushes = 0 /\ nReads = 0
    /\ applied = <<>>
    /\ invoked = [i \in {} |-> <<>>]
    /\ fetchLog = <<>>
    /\ seen = {}

\* Two watched wallets, with and without a mint allow-list.
Init ==
    /\ wallets = <<"A", "B">>
    /\ tokens \in {<<>>, <<"M1">>}
    /\ lim = [changes |-> MaxChanges, ticks |-> MaxTicks,
              pushes |-> MaxPushes, time |-> MaxTime]
    /\ NewMonitor

\* One watched wallet and no allow-list.
InitSolo ==
    /\ wallets = <<"A">>
    /\ tokens = <<>>
    /\ lim = [changes |-> MaxChanges, ticks |-> MaxTicks,
              pushes |-> SoloPushes, time |-> MaxTime]
    /\ NewMonitor

\* One watched wallet, no allow-list, the pushes of the two-wallet runs.
InitSmall ==
    /\ wallets = <<"A">>
    /\ tokens = <<>>
    /\ lim = [changes |-> MaxChanges, ticks |-> MaxTicks,
              pushes |-> MaxPushes, time |-> MaxTime]
    /\ NewMonitor

\* One watched wallet, no allow-list, a ledger that does not change.
InitLive ==
    /\ wallets = <<"A">>
    /\ tokens = <<>>
    /\ lim = [changes |-> 0, ticks |-> MaxTicks,
              pushes |-> MaxPushes, time |-> MaxTime]
    /\ NewMonitor

\* One watched wallet, no allow-list, a change feed that delivers nothing.
InitQuiet ==
    /\ wallets = <<"A">>
    /\ tokens = <<>>
    /\ lim = [changes |-> MaxChanges, ticks |-> MaxTicks,
              pushes |-> 0, time |-> MaxTime]
    /\ NewMonitor

\* Two watched wallets, no allow-list, a change feed that delivers nothing,
\* one tick more than in the other runs.
InitPoll ==
    /\ wallets = <<"A", "B">>
    /\ tokens = <<>>
    /\ lim = [changes |-> MaxChanges, ticks |-> MaxTicks + 1,
              pushes |-> 0, time |-> MaxTime]
    /\ NewMonitor

\* One watched wallet, no allow-list, a ledger that does not change, a clock
\* that advances.
InitClock ==
    /\ wallets = <<"A">>
    /\ tokens = <<>>
    /\ lim = [changes |-> 0, ticks |-> MaxTicks,
              pushes |-> MaxPushes, time |-> MaxTime + 1]
    /\ NewMonitor

\* ---- driver ---------------------------------------------------------------

\* Monitor.RegisterHandler, called before Start.
RegisterHandler ==
    /\ ~crashed
    /\ startResult = "new"
    /\ Len(handlers) < MaxHandlers
    /\ LET h == HandlerIds[Len(handlers) + 1] IN
        /\ handlers' = Append(handlers, h)
        /\ running' = (h :> 0) @@ running
        /\ invoked' = (h :> <<>>) @@ invoked
    /\ UNCHANGED <<wallets, lim, panicked, tokens, state, stateMutex, ctxDone, startResult, crashed,
                   stopPanic, applied, fetchLog>>
    /\ UNCHANGED <<taskVars, readVars, envVars, nTicks, nPushes>>

\* Monitor.Start: enter updateInitialState.
Start ==
    /\ ~crashed
    /\ startResult = "new"
    /\ startResult' = "running"
    /\ pc' = [pc EXCEPT !["boot"] = "fetch"]
    /\ wi' = [wi EXCEPT !["boot"] = 1]
    /\ UNCHANGED <<wallets, lim, panicked, tokens, handlers, state, stateMutex, ctxDone, accts, cur,
                   chg, hi, running, crashed, stopPanic, nTicks, nPushes>>
    /\ UNCHANGED <<readVars, envVars, histVars>>

\* Monitor.Stop
Stop ==
    /\ ~crashed
    /\ ctxDone' = Cancel(ctxDone).done
    /\ stopPanic' = (stopPanic \/ Cancel(ctxDone).panicked)
    /\ UNCHANGED <<wallets, lim, panicked, tokens, handlers, state, stateMutex, startResult, running,
                   crashed, nTicks, nPushes>>
    /\ UNCHANGED <<taskVars, readVars, envVars, histVars>>

\* ---- updateInitialState and startPeriodicPolling ----------------------------

\* Variant: the range over the accounts stops after the first tracked one.
FirstTrackedOnly(toks, accounts) ==
    LET tracked == SelectSeq(accounts,
                       LAMBDA account : shouldTrackToken(toks, account.Mint))
    IN  IF tracked = <<>> THEN <<>> ELSE <<Head(tracked)>>

\* The accounts of a fetch that pass "if m.shouldTrackToken(account.Mint)".
Tracked(toks, accounts) ==
    SelectSeq(accounts, LAMBDA account : shouldTrackToken(toks, account.Mint))

\* The loops of updateInitialState and startPeriodicPolling, from the point
\* where task t has the tracked accounts rest of wallet number i still to
\* process: the next account enters processAccountUpdate; when the range is
\* exhausted the next wallet is fetched; after the last wallet Start launches
\* the background goroutines and returns nil, and the poll loop goes back
\* to its select.
Continue(t, i, rest) ==
    IF rest # <<>>
    THEN /\ cur' = [cur EXCEPT ![t] = Head(rest)]
         /\ accts' = [accts EXCEPT ![t] = Tail(rest)]
         /\ pc' = [pc EXCEPT ![t] = "pau_lock"]
         /\ wi' = [wi EXCEPT ![t] = i]
         /\ UNCHANGED startResult
    ELSE IF i < Len(wallets)
    THEN /\ wi' = [wi EXCEPT ![t] = i + 1]
         /\ pc' = [pc EXCEPT ![t] = "fetch"]
         /\ accts' = [accts EXCEPT ![t] = <<>>]
         /\ UNCHANGED <<cur, startResult>>
    ELSE IF t = "boot"
    THEN /\ startResult' = "ok"
         /\ pc' = [u \in Tasks |->
                     IF u = "boot" THEN "done"
                     ELSE IF u = "poll" THEN "select"
                     ELSE IF \E j \in 1..Len(wallets) : wallets[j] = u
                     THEN "subscribe" ELSE "off"]
         /\ accts' = [accts EXCEPT ![t] = <<>>]
         /\ UNCHANGED <<cur, wi>>
    ELSE /\ pc' = [pc EXCEPT ![t] = "select"]
         /\ accts' = [accts EXCEPT ![t] = <<>>]
         /\ UNCHANGED <<cur, wi, startResult>>

\* A callback of a subscription returns to the delivery loop.
Return(t) ==
    /\ pc' = [pc EXCEPT ![t] = "open"]
    /\ UNCHANGED <<cur, accts, wi, startResult>>

\* Where task t goes when processAccountUpdate returns.
Resume(t) ==
    IF t \in WalletSet THEN Return(t) ELSE Continue(t, wi[t], accts[t])

\* Variant: Start logs the error of the bootstrap and launches the
\* background goroutines all the same.
LaunchesAnyway(t) ==
    /\ startResult' = "error"
    /\ pc' = [u \in Tasks |->
                IF u = "boot" THEN "done"
                ELSE IF u = "poll" THEN "select"
                ELSE IF \E j \in 1..Len(wallets) : wallets[j] = u
                THEN "subscribe" ELSE "off"]
    /\ UNCHANGED <<wi, accts, cur>>

\* updateInitialState on a failed fetch: return err, which Start returns
\* before it launches anything.
BootFails(t) ==
    /\ startResult' = "error"
    /\ pc' = [pc EXCEPT ![t] = "done"]
    /\ UNCHANGED <<wi, accts, cur>>

\* Variant: a failed fetch ends the poll task.
PollAborts(t, i) ==
    /\ pc' = [pc EXCEPT ![t] = "done"]
    /\ UNCHANGED <<wi, accts, cur, startResult>>

\* startPeriodicPolling on a failed fetch: log, continue with the next wallet.
PollSkip(t, i) == Continue(t, i, <<>>)

\* accounts, err := m.client.GetTokenAccounts(m.ctx, wallet), and the range
\* over accounts up to the first tracked one.
Fetch(t) ==
    /\ ~crashed
    /\ t \in {"boot", "poll"}
    /\ pc[t] = "fetch"
    /\ \E ok \in BOOLEAN, at \in now..lim.time :
        /\ ok => CanSucceed(ctxDone)
        /\ now' = at
        /\ fetchLog' = IF t = "boot"
                       THEN Append(fetchLog, <<wallets[wi[t]], ok>>)
                       ELSE fetchLog
        /\ IF ok
           THEN Continue(t, wi[t],
                    Tracked(tokens, GetTokenAccounts(wallets[wi[t]], chain, at)))
           ELSE IF t = "boot"
           THEN BootFails(t)
           ELSE PollSkip(t, wi[t])
    /\ UNCHANGED <<wallets, lim, panicked, tokens, handlers, state, stateMutex, ctxDone, chg, hi,
                   running, crashed, stopPanic, nTicks, nPushes, applied,
                   invoked, chain, nChanges>>
    /\ UNCHANGED readVars

\* select: case <-ticker.C
PollTick ==
    /\ ~crashed
    /\ pc["poll"] = "select"
    /\ nTicks < lim.ticks
    /\ nTicks' = nTicks + 1
    /\ wi' = [wi EXCEPT !["poll"] = 1]
    /\ pc' = [pc EXCEPT !["poll"] = "fetch"]
    /\ UNCHANGED <<wallets, lim, panicked, tokens, handlers, state, stateMutex, ctxDone, startResult,
                   accts, cur, chg, hi, running, crashed, stopPanic, nPushes>>
    /\ UNCHANGED <<readVars, envVars, histVars>>

\* select: case <-m.ctx.Done()
PollDone ==
    /\ ~crashed
    /\ pc["poll"] = "select"
    /\ ctxDone
    /\ pc' = [pc EXCEPT !["poll"] = "done"]
    /\ UNCHANGED <<wallets, lim, panicked, tokens, handlers, state, stateMutex, ctxDone, startResult,
                   wi, accts, cur, chg, hi, running, crashed, stopPanic,
                   nTicks, nPushes>>
    /\ UNCHANGED <<readVars, envVars, histVars>>

\* ---- subscribeToWalletUpdates ------------------------------------------------

\* m.client.SubscribeToTokenAccountUpdates returns nil or an error; on an
\* error the goroutine of Start logs it and ends.
Subscribe(w) ==
    /\ ~crashed
    /\ pc[w] = "subscribe"
    /\ \E ok \in BOOLEAN :
        /\ ok => CanSucceed(ctxDone)
        /\ pc' = [pc EXCEPT ![w] = IF ok THEN "open" ELSE "failed"]
    /\ UNCHANGED <<wallets, lim, panicked, tokens, handlers, state, stateMutex, ctxDone, startResult,
                   wi, accts, cur, chg, hi, running, crashed, stopPanic,
                   nTicks, nPushes>>
    /\ UNCHANGED <<readVars, envVars, histVars>>

\* One program notification delivered to wallet w's subscription callback.
Push(w) ==
    /\ ~crashed
    /\ pc[w] = "open"
    /\ nPushes < lim.pushes
    /\ nPushes' = nPushes + 1
    /\ \E a \in Volatile, bal \in Balances, amountOk \in BOOLEAN,
          at \in now..lim.time :
        LET account == parseTokenAccountFromSubscription(
                           Notification(a, bal, amountOk), w, at)
        IN  /\ now' = at
            /\ IF account # NoAccount /\ shouldTrackToken(tokens, account.Mint)
               THEN /\ cur' = [cur EXCEPT ![w] = account]
                    /\ pc' = [pc EXCEPT ![w] = "pau_lock"]
               ELSE UNCHANGED <<cur, pc>>
    /\ UNCHANGED <<wallets, lim, panicked, tokens, handlers, state, stateMutex, ctxDone, startResult,
                   wi, accts, chg, hi, running, crashed, stopPanic, nTicks,
                   chain, nChanges>>
    /\ UNCHANGED <<readVars, histVars>>

\* ---- processAccountUpdate -----------------------------------------------------

\* m.stateMutex.Lock(); oldAccount, exists := m.state[key]; balanceChanged := ...
PauLock(t) ==
    /\ ~crashed
    /\ pc[t] = "pau_lock"
    /\ CanLock(stateMutex)
    /\ stateMutex' = [stateMutex EXCEPT !.w = t]
    /\ chg' = [chg EXCEPT ![t] = BalanceChanged(state, cur[t])]
    /\ pc' = [pc EXCEPT ![t] = "pau_write"]
    /\ UNCHANGED <<wallets, lim, panicked, tokens, handlers, state, ctxDone, startResult, wi, accts,
                   cur, hi, running, crashed, stopPanic, nTicks, nPushes>>
    /\ UNCHANGED <<readVars, envVars, histVars>>

\* m.state[key] = account; m.stateMutex.Unlock(); if balanceChanged { ... }
PauWrite(t) ==
    /\ ~crashed
    /\ pc[t] = "pau_write"
    /\ state' = Store(state, cur[t])
    /\ stateMutex' = Unlock(stateMutex)
    /\ applied' = Append(applied,
                     [task |-> t, account |-> cur[t], changed |-> chg[t]])
    /\ seen' = IF rdPc = "copy" THEN seen \cup {state'} ELSE seen
    /\ hi' = [hi EXCEPT ![t] = 1]
    /\ IF chg[t] /\ Len(handlers) > 0
       THEN /\ pc' = [pc EXCEPT ![t] = "pau_notify"]
            /\ UNCHANGED <<cur, accts, wi, startResult>>
       ELSE Resume(t)
    /\ UNCHANGED <<wallets, lim, panicked, tokens, handlers, ctxDone, chg, running, crashed, stopPanic,
                   nTicks, nPushes>>
    /\ UNCHANGED <<rdPc, stateCopy, nReads, envVars, invoked, fetchLog>>

\* for _, handler := range m.handlers { go handler(account) }
PauNotify(t) ==
    /\ ~crashed
    /\ pc[t] = "pau_notify"
    /\ GoReady(running)
    /\ LET h == handlers[hi[t]] IN
        /\ running' = [running EXCEPT ![h] = running[h] + 1]
        /\ invoked' = [invoked EXCEPT ![h] =
                          Append(invoked[h], HandlerArg(state, cur[t]))]
    /\ IF hi[t] < Len(handlers)
       THEN /\ hi' = [hi EXCEPT ![t] = hi[t] + 1]
            /\ UNCHANGED <<pc, cur, accts, wi, startResult>>
       ELSE /\ hi' = [hi EXCEPT ![t] = 1]
            /\ Resume(t)
    /\ UNCHANGED <<wallets, lim, panicked, tokens, handlers, state, stateMutex, ctxDone, chg, crashed,
                   stopPanic, nTicks, nPushes, applied, fetchLog>>
    /\ UNCHANGED <<readVars, envVars>>

\* ---- handler goroutines --------------------------------------------------------

\* A handler invocation returns.
HandlerReturn(h) ==
    /\ ~crashed
    /\ h \in DOMAIN running
    /\ running[h] > 0
    /\ running' = [running EXCEPT ![h] = running[h] - 1]
    /\ UNCHANGED <<wallets, lim, panicked, tokens, handlers, state, stateMutex, ctxDone, startResult,
                   crashed, stopPanic, nTicks, nPushes>>
    /\ UNCHANGED <<taskVars, readVars, envVars, histVars>>

\* A handler invocation panics: nothing recovers it, the process exits.
HandlerPanic(h) ==
    /\ ~crashed
    /\ h \in DOMAIN running
    /\ running[h] > 0
    /\ panicked' = TRUE
    /\ crashed' = Unrecovered(TRUE)
    /\ UNCHANGED <<wallets, lim, tokens, handlers, state, stateMutex, ctxDone, startResult,
                   running, stopPanic, nTicks, nPushes>>
    /\ UNCHANGED <<taskVars, readVars, envVars, histVars>>

\* ---- GetCurrentState -------------------------------------------------------------

\* A call of GetCurrentState, the first or a later one:
\* m.stateMutex.RLock(); stateCopy := make(...)
RdLock ==
    /\ ~crashed
    /\ rdPc \in {"idle", "done"}
    /\ nReads < MaxReads
    /\ CanRLock(stateMutex)
    /\ stateMutex' = [stateMutex EXCEPT !.r = stateMutex.r + 1]
    /\ rdPc' = "copy"
    /\ stateCopy' = EmptyState
    /\ seen' = {state}
    /\ nReads' = nReads + 1
    /\ UNCHANGED <<wallets, lim, panicked, tokens, handlers, state, ctxDone, startResult, running,
                   crashed, stopPanic, nTicks, nPushes>>
    /\ UNCHANGED <<taskVars, envVars, histVars>>

\* for k, v := range m.state { stateCopy[k] = v }: one iteration
RdCopy ==
    /\ ~crashed
    /\ rdPc = "copy"
    /\ \E k \in DOMAIN state \ DOMAIN stateCopy :
        stateCopy' = (k :> state[k]) @@ stateCopy
    /\ UNCHANGED <<wallets, lim, panicked, tokens, handlers, state, stateMutex, ctxDone, startResult,
                   running, crashed, stopPanic, nTicks, nPushes, rdPc, nReads,
                   seen>>
    /\ UNCHANGED <<taskVars, envVars, histVars>>

\* the range is exhausted: return stateCopy (deferred RUnlock)
RdReturn ==
    /\ ~crashed
    /\ rdPc = "copy"
    /\ DOMAIN state \subseteq DOMAIN stateCopy
    /\ stateMutex' = [stateMutex EXCEPT !.r = stateMutex.r - 1]
    /\ rdPc' = "done"
    /\ UNCHANGED <<wallets, lim, panicked, tokens, handlers, state, ctxDone, startResult, running,
                   crashed, stopPanic, nTicks, nPushes, stateCopy, nReads,
                   seen>>
    /\ UNCHANGED <<taskVars, envVars, histVars>>

\* ---- environment -------------------------------------------------------------------

\* The on-ledger balance of an account changes, or the account is closed.
\* The ledger is read by Fetch only, and a change commutes with every other
\* action, so changes are taken when a fetch is about to happen.
ChainChange ==
    /\ ~crashed
    /\ \E t \in {"boot", "poll"} : pc[t] = "fetch"
    /\ nChanges < lim.changes
    /\ nChanges' = nChanges + 1
    /\ \E a \in Volatile, c \in {Open(bal) : bal \in Balances} \cup {Closed} :
        /\ chain[a] # c
        /\ chain' = [chain EXCEPT ![a] = c]
    /\ UNCHANGED <<wallets, lim, panicked, tokens, handlers, state, stateMutex, ctxDone, startResult,
                   running, crashed, stopPanic, nTicks, nPushes, now>>
    /\ UNCHANGED <<taskVars, readVars, histVars>>

\* ---- specification -------------------------------------------------------------------

\* Ingestion: bootstrap, poll, subscriptions and the update-application path.
Ingest ==
    \/ RegisterHandler
    \/ Start
    \/ \E t \in {"boot", "poll"} : Fetch(t)
    \/ PollTick
    \/ \E w \in WalletSet : Subscribe(w)
    \/ \E w \in WalletSet : Push(w)
    \/ \E t \in Tasks : PauLock(t)
    \/ \E t \in Tasks : PauWrite(t)
    \/ \E t \in Tasks : PauNotify(t)
    \/ ChainChange

Lifecycle ==
    \/ Stop
    \/ PollDone

HandlerSteps ==
    \/ \E h \in DOMAIN running : HandlerReturn(h)
    \/ \E h \in DOMAIN running : HandlerPanic(h)

Reader ==
    \/ RdLock
    \/ RdCopy
    \/ RdReturn

\* Every action is a step of the running process: none is taken once an
\* unrecovered panic has ended it.
Next == Ingest \/ Lifecycle \/ HandlerSteps \/ Reader

Spec == Init /\ [][Next]_vars

\* Ingestion alone.  The actions left out (Stop, the handler goroutines,
\* GetCurrentState) enable no step of Ingest: they only stop tasks, end the
\* process or delay a Lock.
NextIngest == Ingest
SpecIngest == Init /\ [][NextIngest]_vars
SpecSolo == InitSolo /\ [][NextIngest]_vars

\* Ingestion and the lifecycle calls.
NextStop == Ingest \/ Lifecycle
SpecStop == Init /\ [][NextStop]_vars

\* Ingestion and a concurrent caller of GetCurrentState.
NextRead == Ingest \/ Reader
SpecRead == InitSmall /\ [][NextRead]_vars

\* Ingestion and the handler goroutines.
NextHandlers == Ingest \/ HandlerSteps
SpecHandlers == InitSmall /\ [][NextHandlers]_vars

\* Ingestion with handlers that return or block, but do not panic.  The Go
\* scheduler runs every runnable goroutine, so a task inside
\* processAccountUpdate takes its next step; nothing makes a handler return.
LiveSteps ==
    \/ RegisterHandler
    \/ Start
    \/ \E t \in {"boot", "poll"} : Fetch(t)
    \/ PollTick
    \/ \E w \in WalletSet : Subscribe(w)
    \/ \E w \in WalletSet : Push(w)
    \/ \E t \in Tasks : PauLock(t)
    \/ \E t \in Tasks : PauWrite(t)
    \/ \E t \in Tasks : PauNotify(t)
    \/ \E h \in DOMAIN running : HandlerReturn(h)
NextLive == LiveSteps
LiveSpec ==
    /\ InitLive
    /\ [][NextLive]_vars
    /\ \A t \in Tasks :
        /\ SF_vars(PauLock(t))
        /\ WF_vars(PauWrite(t))
        /\ WF_vars(PauNotify(t))

\* Ingestion and the lifecycle calls on a ledger that does not change, with
\* the scheduling of the Go runtime: a goroutine that can take a step
\* eventually takes it.  Ticks, notifications and calls of Stop come from
\* outside and nothing forces them.
NextCancel == LiveSteps \/ Lifecycle
SpecCancel ==
    /\ InitLive
    /\ [][NextCancel]_vars
    /\ WF_vars(PollDone)
    /\ \A t \in {"boot", "poll"} : WF_vars(Fetch(t))
    /\ \A w \in WalletSet : WF_vars(Subscribe(w))
    /\ \A t \in Tasks :
        /\ SF_vars(PauLock(t))
        /\ WF_vars(PauWrite(t))
        /\ WF_vars(PauNotify(t))

\* Bootstrap, poll and the handler goroutines on a ledger that changes,
\* while the change feed delivers nothing, with the scheduling of the Go
\* runtime.  Nothing forces a tick, a ledger change, or a handler to return
\* or to panic.
PollSteps ==
    \/ RegisterHandler
    \/ Start
    \/ \E t \in {"boot", "poll"} : Fetch(t)
    \/ PollTick
    \/ \E w \in WalletSet : Subscribe(w)
    \/ \E t \in Tasks : PauLock(t)
    \/ \E t \in Tasks : PauWrite(t)
    \/ \E t \in Tasks : PauNotify(t)
    \/ ChainChange
NextConverge == PollSteps \/ HandlerSteps
SpecConverge ==
    /\ InitQuiet
    /\ [][NextConverge]_vars
    /\ \A t \in {"boot", "poll"} : WF_vars(Fetch(t))
    /\ \A w \in WalletSet : WF_vars(Subscribe(w))
    /\ \A t \in Tasks :
        /\ SF_vars(PauLock(t))
        /\ WF_vars(PauWrite(t))
        /\ WF_vars(PauNotify(t))

\* Bootstrap, poll and the lifecycle calls, two wallets.
NextPoll == PollSteps \/ Lifecycle
SpecPoll == InitPoll /\ [][NextPoll]_vars

\* Ingestion on a ledger that does not change, handlers that return or
\* block, and a caller of GetCurrentState (a handler or any other goroutine).
NextCallers == LiveSteps \/ Reader
SpecCallers == InitLive /\ [][NextCallers]_vars

\* As NextLive, with records whose timestamps differ.
SpecClock == InitClock /\ [][NextLive]_vars

\* ---- properties ------------------------------------------------------------------------

\* The updates committed so far for the key (owner, mint), in commit order.
KeyLog(owner, mint) ==
    SelectSeq(applied,
        LAMBDA e : e.account.Owner = owner /\ e.account.Mint = mint)

SameKey(e, f) ==
    e.account.Owner = f.account.Owner /\ e.account.Mint = f.account.Mint

\* The index of the latest update before number i for the same key, or 0.
PriorOf(i) ==
    LET before == {j \in 1..(i - 1) : SameKey(applied[j], applied[i])}
    IN  IF before = {} THEN 0
        ELSE CHOOSE j \in before : \A k \in before : k <= j

\* The number of invocations of handler h with balance bal for (owner, mint).
Notified(h, owner, mint, bal) ==
    Len(SelectSeq(invoked[h],
            LAMBDA r : r.Owner = owner /\ r.Mint = mint /\ r.Balance = bal))

\* C1 - Dedup law: an update declares a change exactly when it is the first
\* update for its key or its balance differs from the balance stored by the
\* previous update for that key.
DedupLaw ==
    \A i \in 1..Len(applied) :
        applied[i].changed <=>
            \/ PriorOf(i) = 0
            \/ applied[PriorOf(i)].account.Balance # applied[i].account.Balance

\* C1 witness: four updates b1, b2, b2, b3 of key (A, M1) with exactly the
\* first, second and fourth declared.
DedupWitness ==
    LET kl == KeyLog("A", "M1") IN
    /\ Len(kl) = 4
    /\ kl[1].account.Balance # kl[2].account.Balance
    /\ kl[2].account.Balance = kl[3].account.Balance
    /\ kl[3].account.Balance # kl[4].account.Balance
    /\ kl[1].account.Balance # kl[4].account.Balance
    /\ kl[1].changed /\ kl[2].changed /\ ~kl[3].changed /\ kl[4].changed

\* C2 - Atomic change detection: no two tasks are between the read and the
\* replacement at once; the store is as the task in that section read it;
\* and of two successive updates of one key by different tasks with the same
\* balance the second never declares a change, while the first declares
\* one whenever that balance was new.
AtomicChangeDetection ==
    /\ \A t, u \in Tasks :
        pc[t] = "pau_write" /\ pc[u] = "pau_write" => t = u
    /\ \A t \in Tasks :
        pc[t] = "pau_write" =>
            chg[t] = (\A k \in DOMAIN state :
                        state[k].Owner = cur[t].Owner
                        /\ state[k].Mint = cur[t].Mint
                        => state[k].Balance # cur[t].Balance)
    /\ \A i \in 1..Len(applied) :
        LET j == PriorOf(i) IN
        j # 0 /\ applied[j].task # applied[i].task
        /\ applied[j].account.Balance = applied[i].account.Balance
        => /\ ~applied[i].changed
           /\ applied[j].changed <=>
                \/ PriorOf(j) = 0
                \/ applied[PriorOf(j)].account.Balance
                     # applied[j].account.Balance

\* C2 witness: wallet A's callback holds the lock, having declared a change
\* of an existing key, while the poll task waits to apply the same balance
\* to the same key.
RaceWitness ==
    /\ pc["A"] = "pau_write" /\ pc["poll"] = "pau_lock"
    /\ cur["A"].Mint = cur["poll"].Mint
    /\ cur["A"].Balance = cur["poll"].Balance
    /\ chg["A"]
    /\ Key(cur["A"]) \in DOMAIN state

\* C3 - Filter correctness: with a non-empty allow-list no record of a mint
\* outside it enters processAccountUpdate, is stored, or reaches a handler;
\* with an empty allow-list the bootstrap tracks every listed account.
AllowListed(mint) == \E i \in 1..Len(tokens) : tokens[i] = mint
FilterCorrect ==
    /\ tokens # <<>> =>
        /\ \A k \in DOMAIN state : AllowListed(state[k].Mint)
        /\ \A i \in 1..Len(applied) : AllowListed(applied[i].account.Mint)
        /\ \A h \in DOMAIN invoked : \A i \in 1..Len(invoked[h]) :
             AllowListed(invoked[h][i].Mint)
        /\ \A t \in Tasks :
             pc[t] \in {"pau_lock", "pau_write", "pau_notify"}
             => AllowListed(cur[t].Mint)
    /\ tokens = <<>> /\ startResult = "ok" /\ nChanges = 0 =>
        {"A:M1", "A:M2", "B:M1"} \subseteq DOMAIN state

\* C3 witness: allow-list {M1}; bootstrap and a poll tick both listed the M2
\* account of wallet A, a push was delivered, and the store has no M2 key.
FilterWitness ==
    /\ tokens = <<"M1">>
    /\ startResult = "ok" /\ nChanges = 0
    /\ nTicks = 1 /\ pc["poll"] = "select" /\ nPushes = 1
    /\ DOMAIN state = {"A:M1", "B:M1"}

\* C4 - Partial bootstrap failure, as claimed: when Start has returned, every
\* watched wallet's snapshot was fetched, Start failed if a fetch failed,
\* and the accounts of every wallet whose fetch succeeded are in the store.
FetchedOk(w) == \E i \in 1..Len(fetchLog) : fetchLog[i] = <<w, TRUE>>
FetchFailed(w) == \E i \in 1..Len(fetchLog) : fetchLog[i] = <<w, FALSE>>
PartialBootstrap ==
    startResult \in {"ok", "error"} =>
        \A i \in 1..Len(wallets) :
            /\ FetchedOk(wallets[i]) \/ FetchFailed(wallets[i])
            /\ FetchFailed(wallets[i]) => startResult = "error"
            /\ FetchedOk(wallets[i]) /\ nChanges = 0 /\ tokens = <<>> =>
                 \A a \in Accts : AcctOwner(a) = wallets[i] =>
                    \E k \in DOMAIN state :
                        state[k].Owner = wallets[i] /\ state[k].Address = a

\* C5 - End-to-end scenario: after bootstrap applied (A, M1, 100), a poll
\* record (A, M1, 150) declares a change, every handler is invoked exactly
\* once with balance 150, the store maps (A, M1) to 150, and a following
\* push of (A, M1, 150) declares no change and invokes no handler.
EndToEnd ==
    LET kl == KeyLog("A", "M1") IN
    (/\ Len(kl) >= 2
     /\ kl[1].task = "boot" /\ kl[1].account.Balance = 100
     /\ kl[2].task = "poll" /\ kl[2].account.Balance = 150)
    => /\ kl[2].changed
       /\ Len(kl) = 2 => state["A:M1"].Balance = 150
       /\ Len(kl) = 2 \/ (Len(kl) = 3 /\ kl[3].task = "A"
                           /\ kl[3].account.Balance = 150) =>
            /\ state["A:M1"].Balance = 150
            /\ Len(kl) = 3 => ~kl[3].changed
            /\ \A i \in 1..Len(handlers) :
                 LET n == Notified(handlers[i], "A", "M1", 150) IN
                 IF /\ pc["poll"] = "pau_notify"
                    /\ cur["poll"].Mint = "M1"
                    /\ hi["poll"] <= i
                 THEN n = 0 ELSE n = 1

\* C5 witness: the three updates of the scenario are committed and all
\* dispatching is over, with two handlers registered.
EndToEndWitness ==
    LET kl == KeyLog("A", "M1") IN
    /\ Len(kl) = 3 /\ Len(handlers) = 2
    /\ kl[1].task = "boot" /\ kl[1].account.Balance = 100
    /\ kl[2].task = "poll" /\ kl[2].account.Balance = 150
    /\ kl[3].task = "A" /\ kl[3].account.Balance = 150
    /\ \A t \in Tasks : pc[t] # "pau_notify"
    /\ Notified("h1", "A", "M1", 150) = 1

\* C6 - Merge idempotence: committing a record equal to the record stored
\* for its key declares no change and leaves the whole store as it was.
Commits(t) == pc[t] = "pau_write" /\ pc'[t] # "pau_write"
StoredNow(account) ==
    \E k \in DOMAIN state :
        state[k] = account
MergeIdempotent ==
    [][\A t \in Tasks :
         Commits(t) /\ StoredNow(cur[t]) => ~chg[t] /\ state' = state]_vars

\* C6 witness: the same record was committed twice in a row for a key and
\* the second commit declared no change.
MergeWitness ==
    \E i \in 2..Len(applied) :
        /\ PriorOf(i) # 0
        /\ applied[PriorOf(i)].account = applied[i].account
        /\ ~applied[i].changed


\* C7 - GetCurrentState returns a point-in-time independent copy: the
\* returned mapping is the store as it was at some instant of the call, and
\* no later step changes a mapping that was returned.
SnapshotIsCopy ==
    [][/\ rdPc' = "done" => stateCopy' \in seen'
       /\ rdPc = "done" /\ rdPc' = "done" => stateCopy' = stateCopy]_vars

\* C7 witness: a mapping was returned with two keys and the store has
\* changed since.
SnapshotWitness ==
    /\ rdPc = "done"
    /\ DOMAIN stateCopy = {"A:M1", "A:M2"}
    /\ stateCopy # state

\* C8 - Stop is idempotent and safe without Start: a call of Stop never
\* panics, a call after the first changes nothing at all, and a call on an
\* engine that was never started leaves store, handlers and tasks alone.
StopIdempotent ==
    [][Stop =>
        /\ ~stopPanic'
        /\ ctxDone => UNCHANGED vars
        /\ startResult = "new" =>
             /\ UNCHANGED <<state, handlers, pc, running, startResult>>
             /\ state' = EmptyState
             /\ \A t \in Tasks : pc'[t] \in {"idle", "off"}]_vars

\* C8 witness: Stop was called on an engine that was never started.
StopWitness == ctxDone /\ startResult = "new" /\ Len(handlers) = 1

\* C9 - A handler that never returns does not stall the engine: although no
\* handler need ever return, an update waiting for the store lock is
\* eventually followed by a commit, and whatever number of changes has been
\* declared, every registered handler is eventually invoked that many times.
NumChanged == Len(SelectSeq(applied, LAMBDA e : e.changed))
AppliedBound == 2 * (MaxTicks + 1) + MaxPushes
HandlersNeverStall ==
    /\ \A n \in 0..AppliedBound :
        ((\E t \in Tasks : pc[t] = "pau_lock") /\ Len(applied) = n) ~>
            (Len(applied) > n)
    /\ \A n \in 1..AppliedBound :
        (NumChanged >= n) ~>
            (\A i \in 1..Len(handlers) : Len(invoked[handlers[i]]) >= n)

\* C9 witness: no invocation of h1 has ever returned, and both handlers
\* have been invoked for three changes.
BlockedWitness ==
    /\ Len(handlers) = 2
    /\ Len(invoked["h1"]) = 3 /\ running["h1"] = 3
    /\ Len(invoked["h2"]) = 3

\* C10 - Handler failures are isolated, as claimed: a panic of a handler
\* invocation does not end the engine.
HandlerFailureIsolated == panicked => ~crashed

\* C11 - Cancellation, as claimed: once Stop has been called on a started
\* engine, the poll task ends and every wallet's subscription is released,
\* so that no background task is left that could apply an update.
Released(w) == pc[w] \in {"off", "failed"}
CancellationTerminates ==
    (ctxDone /\ startResult = "ok") ~>
        (pc["poll"] = "done" /\ \A w \in WalletSet : Released(w))

\* C12 - Eventual consistency through the poll fallback: when account a
\* stays at balance b on the ledger, the feed delivers nothing more, and a
\* poll fetch has succeeded and holds a's record, then, unless the process
\* has ended, the store comes to hold b for a's key and keeps it, and if the
\* store did not hold b every handler is invoked once more with balance b.
PollHolds(a, b) ==
    /\ pc["poll"] \in {"pau_lock", "pau_write"}
    /\ \/ cur["poll"].Address = a /\ cur["poll"].Balance = b
       \/ \E i \in 1..Len(accts["poll"]) :
             accts["poll"][i].Address = a /\ accts["poll"][i].Balance = b
FeedSilent ==
    /\ nPushes = lim.pushes
    /\ \A w \in WalletSet : pc[w] \notin {"pau_lock", "pau_write"}
SettledAt(a, b) ==
    /\ chain[a] = Open(b) /\ nChanges = lim.changes
    /\ FeedSilent
    /\ PollHolds(a, b)
HoldsBalance(a, b) ==
    \E k \in DOMAIN state :
        /\ state[k].Owner = AcctOwner(a) /\ state[k].Mint = AcctMint(a)
        /\ state[k].Balance = b
\* The number of invocations of the i-th handler with balance b for a's key;
\* -1 when fewer than i handlers are registered.
NotifiedNth(i, a, b) ==
    IF i <= Len(handlers)
    THEN Notified(handlers[i], AcctOwner(a), AcctMint(a), b)
    ELSE -1
ConvergesByPoll ==
    \A a \in Volatile, b \in Balances :
        /\ [](SettledAt(a, b) => <>[](crashed \/ HoldsBalance(a, b)))
        /\ \A i \in 1..MaxHandlers, n \in 0..(MaxTicks + 1) :
            (SettledAt(a, b) /\ ~HoldsBalance(a, b) /\ NotifiedNth(i, a, b) = n)
            ~> (crashed \/ NotifiedNth(i, a, b) > n)

\* C12 witness: the ledger moved (A, M1) to 150 after the bootstrap, no
\* notification carried it, and the poll stored it and notified h1.
PollFallbackWitness ==
    LET kl == KeyLog("A", "M1") IN
    /\ chain["a1"] = Open(150) /\ nPushes = lim.pushes
    /\ Len(kl) >= 2
    /\ kl[Len(kl)].task = "poll" /\ kl[Len(kl)].changed
    /\ kl[Len(kl)].account.Balance = 150
    /\ \A i \in 1..Len(kl) : kl[i].task = "A" => kl[i].account.Balance # 150
    /\ state["A:M1"].Balance = 150
    /\ pc["poll"] = "select"
    /\ Len(handlers) >= 1 /\ Notified("h1", "A", "M1", 150) = 1

\* C13 - Automatic retry and reconnection, as claimed: a subscription that
\* failed to open while the engine runs is eventually open.
SubscriptionRetried ==
    \A w \in WalletSet :
        (pc[w] = "failed" /\ ~ctxDone) ~> (pc[w] = "open" \/ ctxDone)

\* C14 - Bootstrap ordering: no subscription or poll task exists before Start
\* returns success, and every update of the bootstrap is committed before
\* any other; when Start has returned success every watched wallet was
\* fetched once, in order and with success, the bootstrap holds no record
\* still to apply, and every allow-listed account the ledger listed is in the
\* log of bootstrap updates.  Step by step: a successful bootstrap fetch
\* queues exactly the allow-listed records returned, the queue is consumed
\* one record at a time, and each consumed record is committed.
Launched == \E t \in Tasks \ {"boot"} : pc[t] # "off"
BootApplied(a) ==
    \E i \in 1..Len(applied) :
        /\ applied[i].task = "boot"
        /\ applied[i].account.Address = a
        /\ applied[i].account.Owner = AcctOwner(a)
        /\ applied[i].account.Balance = 100
Watched(w) == \E i \in 1..Len(wallets) : wallets[i] = w
BootstrapFirst ==
    /\ [](startResult # "ok" => ~Launched)
    /\ [](\A i, j \in 1..Len(applied) :
            i < j /\ applied[j].task = "boot" => applied[i].task = "boot")
    /\ [](startResult = "ok" =>
            /\ fetchLog = [i \in 1..Len(wallets) |-> <<wallets[i], TRUE>>]
            /\ pc["boot"] = "done" /\ accts["boot"] = <<>>
            /\ \A a \in Accts :
                 (/\ Watched(AcctOwner(a))
                  /\ shouldTrackToken(tokens, AcctMint(a))
                  /\ a \notin Volatile \/ nChanges = 0)
                 => BootApplied(a))
    /\ [][/\ (pc["boot"] = "fetch" /\ pc'["boot"] = "pau_lock") =>
               <<cur'["boot"]>> \o accts'["boot"] =
                   SelectSeq(GetTokenAccounts(wallets[wi["boot"]], chain, now'),
                       LAMBDA r : shouldTrackToken(tokens, r.Mint))
          /\ (pc["boot"] # "fetch" /\ accts'["boot"] # accts["boot"]) =>
               /\ cur'["boot"] = Head(accts["boot"])
               /\ accts'["boot"] = Tail(accts["boot"])
          /\ (/\ pc["boot"] = "fetch" /\ pc'["boot"] # "pau_lock"
              /\ pc'["boot"] # "fetch" \/ wi'["boot"] # wi["boot"]
              /\ startResult' # "error") =>
               SelectSeq(GetTokenAccounts(wallets[wi["boot"]], chain, now'),
                   LAMBDA r : shouldTrackToken(tokens, r.Mint)) = <<>>
          /\ Commits("boot") =>
               /\ Len(applied') = Len(applied) + 1
               /\ applied'[Len(applied')].account = cur["boot"]
               /\ applied'[Len(applied')].task = "boot"
          /\ (startResult # "ok" /\ startResult' = "ok") =>
               /\ accts["boot"] = <<>> /\ wi["boot"] = Len(wallets)
               /\ \A w \in WalletSet :
                    pc'[w] = IF Watched(w) THEN "subscribe" ELSE "off"
               /\ pc'["poll"] = "select"]_vars

\* C14 witness: Start returned success with allow-list {M1}; the two M1
\* accounts were applied by the bootstrap and the tasks were launched after.
BootstrapWitness ==
    /\ startResult = "ok" /\ tokens = <<"M1">>
    /\ Len(applied) = 2
    /\ applied[1].account.Address = "a1" /\ applied[2].account.Address = "a3"
    /\ pc["A"] = "subscribe" /\ pc["B"] = "subscribe" /\ pc["poll"] = "select"

\* C15 - Poll resilience: the poll task has ended only if Stop was called;
\* a poll fetch, failed or not, leaves the store, the log and Start's result
\* alone and is followed by the processing of its records, by the fetch of
\* the next wallet, or after the last wallet by the wait for the next tick;
\* the wallets of a tick are visited in order without a gap; and while ticks
\* remain the waiting poll task can take the next one.
PollFetchStep ==
    /\ pc["poll"] = "fetch"
    /\ pc'["poll"] # "fetch" \/ wi'["poll"] # wi["poll"]
PollResilient ==
    /\ [](pc["poll"] = "done" => ctxDone)
    /\ [](pc["poll"] = "select" /\ nTicks < lim.ticks /\ ~crashed
            => ENABLED PollTick)
    /\ [][/\ PollFetchStep =>
               /\ state' = state /\ applied' = applied
               /\ stateMutex' = stateMutex /\ startResult' = startResult
               /\ pc'["poll"] \in {"pau_lock", "fetch", "select"}
               /\ pc'["poll"] = "pau_lock" => wi'["poll"] = wi["poll"]
               /\ pc'["poll"] = "fetch" => wi'["poll"] = wi["poll"] + 1
               /\ pc'["poll"] = "select" => wi["poll"] = Len(wallets)
               /\ (pc'["poll"] # "pau_lock" /\ wi["poll"] < Len(wallets))
                    => (pc'["poll"] = "fetch"
                        /\ wallets[wi'["poll"]] = wallets[wi["poll"] + 1])
          /\ (pc["poll"] \notin {"off", "select"} /\ pc'["poll"] = "select")
               => wi["poll"] = Len(wallets) /\ accts["poll"] = <<>>
          /\ wi'["poll"] # wi["poll"] =>
               \/ pc["poll"] = "select" /\ wi'["poll"] = 1
               \/ wi'["poll"] = wi["poll"] + 1]_vars

\* C15 witness: on an unchanged ledger the first tick applied wallet B's
\* account only, so the fetch for A had failed; the second tick applied the
\* accounts of both wallets; the engine was not stopped.
PollLog == SelectSeq(applied, LAMBDA e : e.task = "poll")
PollWitness ==
    /\ nChanges = 0 /\ ~ctxDone /\ pc["poll"] = "select"
    /\ Len(PollLog) = 4
    /\ PollLog[1].account.Address = "a3"
    /\ PollLog[2].account.Address = "a1"
    /\ PollLog[3].account.Address = "a2"
    /\ PollLog[4].account.Address = "a3"

\* C16 - The store lock is never held while a handler runs: a task holds the
\* write lock exactly between its Lock and its Unlock, never while it
\* dispatches; an invocation is started only by a task that is dispatching
\* and does not hold the lock; and while invocations are in progress, however
\* long they last, the holder of the lock can release it, a free lock can be
\* taken by a waiting update, and GetCurrentState can take the read lock
\* whenever no update holds the lock.
HandlerRunning == \E h \in DOMAIN running : running[h] > 0
LockFreeDispatch ==
    /\ [](\A t \in Tasks : stateMutex.w = t <=> pc[t] = "pau_write")
    /\ [](\A t \in Tasks : pc[t] = "pau_notify" => stateMutex.w # t)
    /\ [](HandlerRunning =>
            /\ \A t \in Tasks : stateMutex.w = t => ENABLED PauWrite(t)
            /\ \A t \in Tasks :
                 (pc[t] = "pau_lock" /\ stateMutex.w = "none"
                  /\ stateMutex.r = 0) => ENABLED PauLock(t)
            /\ (stateMutex.w = "none" /\ rdPc \in {"idle", "done"}
                /\ nReads < MaxReads) => ENABLED RdLock)
    /\ [][\A h \in DOMAIN running :
            running'[h] > running[h] =>
                \E t \in Tasks :
                    /\ pc[t] = "pau_notify" /\ stateMutex.w # t
                    /\ stateMutex'.w # t]_vars

\* C16 witness: no invocation of h1 has returned, and meanwhile the poll task
\* holds the lock for a later update and GetCurrentState has returned the
\* record of the first.
LockFreeWitness ==
    /\ Len(handlers) >= 1
    /\ running["h1"] = 2 /\ Len(invoked["h1"]) = 2
    /\ pc["poll"] = "pau_write" /\ stateMutex.w = "poll"
    /\ rdPc = "done" /\ DOMAIN stateCopy # {}

\* The key of a record, written out: owner, a colon, mint.
KeyOf(r) == r.Owner \o ":" \o r.Mint

\* C17 - Change is decided by balance alone and replacement is unconditional:
\* every commit leaves the incoming record, in all its fields, as the record
\* of its key; and a commit for an existing key whose stored balance equals
\* the incoming one declares no change and starts no dispatch, whatever the
\* other fields are.
BalanceAloneDecides ==
    [][\A t \in Tasks :
         Commits(t) =>
            /\ KeyOf(cur[t]) \in DOMAIN state'
            /\ state'[KeyOf(cur[t])] = cur[t]
            /\ (/\ KeyOf(cur[t]) \in DOMAIN state
                /\ state[KeyOf(cur[t])].Balance = cur[t].Balance)
               => /\ ~chg[t]
                  /\ ~applied'[Len(applied')].changed
                  /\ pc'[t] # "pau_notify"
                  /\ invoked' = invoked /\ running' = running]_vars

\* C17 witness: the latest update of a key has the balance of the update
\* before it and another timestamp; it declared no change and it is the
\* stored record.
ReplacedWitness ==
    /\ Len(applied) >= 2
    /\ LET i == Len(applied) IN
        /\ PriorOf(i) # 0
        /\ applied[PriorOf(i)].account.Balance = applied[i].account.Balance
        /\ applied[PriorOf(i)].account.LastUpdatedAt
             # applied[i].account.LastUpdatedAt
        /\ ~applied[i].changed
        /\ state[KeyOf(applied[i].account)] = applied[i].account

\* C18 - Key uniqueness: every record is stored under the key made of its
\* own owner and mint, so no two stored records share an (owner, mint) pair;
\* a commit touches the key of the incoming record only, adding it or
\* replacing its record.
KeyUnique ==
    /\ [](\A k \in DOMAIN state : k = KeyOf(state[k]))
    /\ [](\A k1, k2 \in DOMAIN state :
            (state[k1].Owner = state[k2].Owner
             /\ state[k1].Mint = state[k2].Mint) => k1 = k2)
    /\ [][\A t \in Tasks :
            Commits(t) =>
                /\ DOMAIN state' = DOMAIN state \cup {KeyOf(cur[t])}
                /\ state'[KeyOf(cur[t])] = cur[t]
                /\ \A k \in DOMAIN state \ {KeyOf(cur[t])} :
                     state'[k] = state[k]]_vars

\* C18 witness: three keys of two wallets are stored, and the record of
\* (A, M1) has replaced an earlier record with another balance.
KeyWitness ==
    LET kl == KeyLog("A", "M1") IN
    /\ DOMAIN state = {"A:M1", "A:M2", "B:M1"}
    /\ Len(kl) >= 2
    /\ state["A:M1"] = kl[Len(kl)].account
    /\ kl[1].account.Balance # state["A:M1"].Balance

\* C19 - Records are never deleted: no step removes a key from the store,
\* and every key that was ever committed is in the store.
NeverDeleted ==
    /\ [][DOMAIN state \subseteq DOMAIN state']_vars
    /\ [](\A i \in 1..Len(applied) :
            KeyOf(applied[i].account) \in DOMAIN state)

\* C19 witness: the account of (A, M1) was closed on the ledger and a poll
\* snapshot listed (A, M2) only, then (A, M2) emptied to balance 0; both
\* keys are in the store.
DeletedWitness ==
    /\ chain["a1"] = Closed /\ pc["poll"] = "select"
    /\ Len(PollLog) = 1 /\ PollLog[1].account.Address = "a2"
    /\ DOMAIN state = {"A:M1", "A:M2"}
    /\ state["A:M2"].Balance = 0

\* C20 - Fan-out is exactly once per handler per change: for every handler
\* and every record, the invocations of the handler with that record and
\* the dispatches of it still to come are as many as the committed updates
\* that carried that record and declared a change; so an update that declared
\* no change causes no invocation, and an invocation carries the record of
\* its own update.  Handlers are registered before Start only.
Records ==
    {applied[i].account : i \in 1..Len(applied)}
        \cup UNION {{invoked[h][i] : i \in 1..Len(invoked[h])} :
                     h \in DOMAIN invoked}
InvokedWith(h, r) == Len(SelectSeq(invoked[h], LAMBDA x : x = r))
ChangesWith(r) ==
    Len(SelectSeq(applied, LAMBDA e : e.changed /\ e.account = r))
ToCome(i, r) ==
    Cardinality({t \in Tasks :
        pc[t] = "pau_notify" /\ cur[t] = r /\ hi[t] <= i})
FanOutOnce ==
    /\ [](\A i \in 1..Len(handlers) : \A r \in Records :
            InvokedWith(handlers[i], r) + ToCome(i, r) = ChangesWith(r))
    /\ [](DOMAIN invoked = {handlers[i] : i \in 1..Len(handlers)})
    /\ [][startResult # "new" => handlers' = handlers]_vars

\* C20 witness: two handlers; three updates of (A, M1) of which the second
\* declared no change; both handlers were invoked twice, and their first
\* invocation carries the first record although a later one is stored.
FanOutWitness ==
    LET kl == KeyLog("A", "M1") IN
    /\ Len(handlers) = 2 /\ Len(kl) = 3
    /\ kl[1].changed /\ ~kl[2].changed /\ kl[3].changed
    /\ \A t \in Tasks : pc[t] # "pau_notify"
    /\ \A i \in 1..2 :
         /\ InvokedWith(handlers[i], kl[1].account) = 1
         /\ InvokedWith(handlers[i], kl[3].account) = 1
    /\ state["A:M1"] = kl[3].account
    /\ state["A:M1"] # kl[1].account

\* The records handler h was sent for the key (owner, mint), in the order of
\* the go statements, and the records of the changes committed for that
\* key, in commit order.
SentFor(h, owner, mint) ==
    SelectSeq(invoked[h], LAMBDA r : r.Owner = owner /\ r.Mint = mint)
ChangesFor(owner, mint) ==
    LET kl == SelectSeq(KeyLog(owner, mint), LAMBDA e : e.changed)
    IN  [i \in 1..Len(kl) |-> kl[i].account]
IsPrefix(s, t) ==
    Len(s) <= Len(t) /\ \A i \in 1..Len(s) : s[i] = t[i]
Dispatching == \E t \in Tasks : pc[t] = "pau_notify"

\* C21 - Per-key notification order follows store order, as claimed: for
\* every handler and key the notifications sent so far are, in order, the
\* first changes committed for the key; so when no dispatch is under way the
\* last notification carries the balance stored for the key.
NotifyInStoreOrder ==
    \A h \in DOMAIN invoked : \A a \in Accts :
        LET sent == SentFor(h, AcctOwner(a), AcctMint(a)) IN
        /\ IsPrefix(sent, ChangesFor(AcctOwner(a), AcctMint(a)))
        /\ (~Dispatching /\ sent # <<>>) =>
              sent[Len(sent)].Balance = state[KeyOf(sent[1])].Balance

\* C21, amended - every notification is sent by a task that is dispatching,
\* holds no lock, and sends the record of the latest change that this same
\* task committed; so the notifications of one task follow the order of its
\* own commits, while those of different tasks are not ordered.
LatestChangeBy(t) ==
    LET mine == SelectSeq(applied, LAMBDA e : e.task = t /\ e.changed)
    IN  mine[Len(mine)].account
NotifyInTaskOrder ==
    [][\A h \in DOMAIN invoked :
         invoked'[h] # invoked[h] =>
            /\ Len(invoked'[h]) = Len(invoked[h]) + 1
            /\ \E t \in Tasks :
                 /\ pc[t] = "pau_notify" /\ stateMutex.w # t
                 /\ h = handlers[hi[t]]
                 /\ invoked'[h][Len(invoked'[h])] = LatestChangeBy(t)
                 /\ applied' = applied]_vars

\* C21 witness: all dispatching is over, and the last notification h1 was
\* sent for (A, M1) carries another balance than the stored record, because
\* the callback of wallet A and the poll task committed in one order and
\* dispatched in the other.
StaleLastWitness ==
    LET sent == SentFor("h1", "A", "M1") IN
    /\ Len(handlers) >= 1 /\ ~Dispatching
    /\ \A t \in Tasks : pc[t] \notin {"pau_lock", "pau_write"}
    /\ Len(sent) = 3
    /\ sent[3].Balance # state["A:M1"].Balance
    /\ Len(ChangesFor("A", "M1")) = 3

\* C22 - Failed start launches nothing: when Start has returned an error, a
\* bootstrap fetch failed and it was the last one made, no subscription
\* task and no poll task exists, the store holds exactly the records the
\* bootstrap committed before the failure, and no later step changes the
\* store, the log of updates, the tasks or Start's result.
BootRecords ==
    {applied[i].account : i \in {j \in 1..Len(applied) : applied[j].task = "boot"}}
FailedStartInert ==
    /\ [](startResult = "error" =>
            /\ ~Launched /\ pc["boot"] = "done"
            /\ stateMutex.w = "none"
            /\ Len(fetchLog) >= 1 /\ fetchLog[Len(fetchLog)][2] = FALSE
            /\ \A i \in 1..(Len(fetchLog) - 1) : fetchLog[i][2] = TRUE
            /\ \A i \in 1..Len(applied) : applied[i].task = "boot"
            /\ {state[k] : k \in DOMAIN state} \subseteq BootRecords
            /\ \A r \in BootRecords : KeyOf(r) \in DOMAIN state)
    /\ [][startResult = "error" =>
            /\ state' = state /\ applied' = applied /\ invoked' = invoked
            /\ pc' = pc /\ startResult' = "error"]_vars

\* C22 witness: the fetch for A succeeded and both its accounts were applied,
\* the fetch for B failed, and Start returned the error.
FailedStartWitness ==
    /\ startResult = "error"
    /\ fetchLog = << <<"A", TRUE>>, <<"B", FALSE>> >>
    /\ DOMAIN state = {"A:M1", "A:M2"}
    /\ Len(handlers) = 1 /\ Len(invoked["h1"]) = 2

====
